---- MODULE Spec2Model ----
(***************************************************************************)
(* DiscordShopBot (src/main.py): the payment webhook, the fulfilment       *)
(* routine give_role_async, the product catalog and the manual-review      *)
(* ticket buttons, as a state machine.                                     *)
(*                                                                         *)
(* The specifications share the variables:                                 *)
(*   Spec           the webhook endpoint, fulfilment and the catalog       *)
(*                  commands                                               *)
(*   SpecTicket     the ticket workflow (PaidButton, TicketAdminView) with *)
(*                  its handlers interleaved at their await points         *)
(*   SpecTicketFair SpecTicket with every handler eventually resumed       *)
(*   SpecCatalog    the admin commands on the catalog, with their replies  *)
(*   SpecPayments   payment links and the payment view of a selection      *)
(*   SpecNoDb       the bot started without MONGO_URI                      *)
(***************************************************************************)
EXTENDS Integers, Sequences, FiniteSets, TLC

VARIABLES
    STRIPE_SECRET,   \* os.getenv('STRIPE_SECRET'), None when unset
    SELLAPP_SECRET,  \* os.getenv('SELLAPP_SECRET'), None when unset
    STRIPE_API_KEY,  \* os.getenv('STRIPE_API_KEY'), None when unset
    db,              \* TRUE iff the module-level db is not None
    pymongo_major,   \* major version of the installed pymongo driver
    products_col,    \* the products collection: _id (name) -> document
    payments_col,    \* 'methods' of the global_payments document, empty when there is none
    sent,            \* what the latest commands and selections ended with: the message
                     \* the bot posted, or the exception the handler raised
    member_roles,    \* platform state: member_roles[g][m] = roles member m holds in guild g
    inflight,        \* <<>> or <<req>>: the POST /webhook request being served
    response,        \* <<>> or <<resp>>: what webhook() returned for it
    tickets,         \* ticket channels created by PaidButton.callback
    tasks            \* running TicketAdminView button handlers

vars == <<STRIPE_SECRET, SELLAPP_SECRET, STRIPE_API_KEY, db, pymongo_major,
          products_col, payments_col, sent, member_roles,
          inflight, response, tickets, tasks>>

\* Python's None; also the value of dict.get on an absent key.
None == "None"

\* Python truthiness of an optional string: None and "" are falsy.
Truthy(v) == v # None /\ v # ""

(***************************************************************************)
(* The platform: bot.guilds, in iteration order.  Member 3 is the only     *)
(* administrator; member 1 is in both guilds, member 2 only in the second; *)
(* role 20 exists only in the second guild.                                *)
(***************************************************************************)
Guilds ==
    << [members |-> {1, 3}, roles |-> {10}, admins |-> {3}],
       [members |-> {1, 2, 3}, roles |-> {10, 20}, admins |-> {3}] >>

GuildIds == DOMAIN Guilds
AllRoles == UNION {Guilds[g].roles : g \in GuildIds}
AllMembers == UNION {Guilds[g].members : g \in GuildIds}

ProductNames == {"VIP", "PRO"}
Prices == {"10.00"}

\* int(user_id): defined on decimal strings, ValueError on anything else.
IntOf == ("1" :> 1) @@ ("2" :> 2) @@ ("9" :> 9)
IsDecimal(s) == s \in DOMAIN IntOf

(***************************************************************************)
(* Catalog helpers (MongoDB wrappers).                                     *)
(***************************************************************************)
EmptyDict == [n \in {} |-> None]

get_all_products == IF ~db THEN EmptyDict ELSE products_col

\* A save that keeps the links of the document it overwrites.
save_product_KeepLinks(name, data) ==
    IF ~db THEN products_col
    ELSE [n \in DOMAIN products_col \cup {name} |->
            IF n # name THEN products_col[n]
            ELSE IF name \in DOMAIN products_col
                 THEN [data EXCEPT !.links = products_col[name].links]
                 ELSE data]

\* A save that writes also when db is None.
save_product_NoGuard(name, data) ==
    [n \in DOMAIN products_col \cup {name} |->
        IF n = name THEN data ELSE products_col[n]]

save_product(name, data) ==
    IF ~db THEN products_col
    ELSE [n \in DOMAIN products_col \cup {name} |->
            IF n = name THEN data ELSE products_col[n]]

\* A delete that empties the collection.
delete_product_db_All(name) ==
    IF ~db THEN products_col ELSE EmptyDict

delete_product_db(name) ==
    IF ~db THEN products_col
    ELSE [n \in DOMAIN products_col \ {name} |-> products_col[n]]

(***************************************************************************)
(* Platform calls.                                                         *)
(***************************************************************************)
get_member(g, uid) == IF uid \in Guilds[g].members THEN uid ELSE 0   \* 0: None
get_role(g, role_id) == IF role_id \in Guilds[g].roles THEN role_id ELSE 0

\* Mutant of add_roles: the grant flips the role, as a counter modulo two would.
add_roles_Toggle(roles, g, m, role) ==
    [roles EXCEPT ![g][m] =
        IF role \in roles[g][m] THEN roles[g][m] \ {role}
        ELSE roles[g][m] \cup {role}]

\* member.add_roles(role): the member's role set gains the role.
add_roles(roles, g, m, role) ==
    [roles EXCEPT ![g][m] = roles[g][m] \cup {role}]

(***************************************************************************)
(* give_role_async(user_id, product_name).  add_ok and dm_ok are the       *)
(* platform's answers to member.add_roles and member.send (FALSE: the call *)
(* raises).  The function returns nothing; `outcome` names the branch it   *)
(* took, `calls` the platform calls it made in order, `roles` the role     *)
(* state it leaves, `had` whether the member held the role beforehand,     *)
(* `notified` whether the payment DM was delivered.                        *)
(***************************************************************************)
RECURSIVE FirstGuildWith(_, _)
FirstGuildWith(uid, g) ==
    IF g > Len(Guilds) THEN 0
    ELSE IF get_member(g, uid) # 0 THEN g
    ELSE FirstGuildWith(uid, g + 1)

Lookups(n) == [i \in 1..n |-> "get_member"]

Fulfilment(outcome, calls, roles, had, notified) ==
    [outcome |-> outcome, calls |-> calls, roles |-> roles,
     had |-> had, notified |-> notified]

\* A loop that goes on to the next guild when the member's guild lacks the role.
grant_in_guilds_SkipNoRole(user_id, role_id, add_ok, dm_ok) ==
    IF ~IsDecimal(user_id)
    THEN Fulfilment("ValueError", <<>>, member_roles, FALSE, FALSE)
    ELSE
    LET uid == IntOf[user_id]
        both == {x \in GuildIds : get_member(x, uid) # 0 /\ get_role(x, role_id) # 0}
    IN
    IF both = {}
    THEN Fulfilment("MemberNotFound", Lookups(Len(Guilds)), member_roles,
                    FALSE, FALSE)
    ELSE
    LET g == CHOOSE x \in both : \A y \in both : x <= y
        looked == Lookups(g) \o <<"get_role", "add_roles">>
    IN
    IF ~add_ok
    THEN Fulfilment("GrantFailed", looked, member_roles, FALSE, FALSE)
    ELSE Fulfilment("Granted", looked \o <<"send">>,
                    add_roles(member_roles, g, uid, role_id), FALSE, dm_ok)

\* Lines 119-135: the loop over bot.guilds, for an already resolved role id.
grant_in_guilds(user_id, role_id, add_ok, dm_ok) ==
    IF Len(Guilds) = 0
    THEN Fulfilment("MemberNotFound", <<>>, member_roles, FALSE, FALSE)
    ELSE IF ~IsDecimal(user_id)                      \* int(user_id) raises
    THEN Fulfilment("ValueError", <<>>, member_roles, FALSE, FALSE)
    ELSE
    LET uid == IntOf[user_id]
        g == FirstGuildWith(uid, 1)
    IN
    IF g = 0
    THEN Fulfilment("MemberNotFound", Lookups(Len(Guilds)), member_roles,
                    FALSE, FALSE)
    ELSE IF get_role(g, role_id) = 0
    THEN Fulfilment("RoleNotFound", Lookups(g) \o <<"get_role">>,
                    member_roles, FALSE, FALSE)
    ELSE
    LET had == role_id \in member_roles[g][uid]
        looked == Lookups(g) \o <<"get_role", "add_roles">>
    IN
    IF ~add_ok
    THEN Fulfilment("GrantFailed", looked, member_roles, had, FALSE)
    ELSE Fulfilment("Granted", looked \o <<"send">>,
                    add_roles(member_roles, g, uid, role_id), had, dm_ok)

\* Mutant of give_role_async: no early return for a missing product; the role
\* id of a missing product is None (0).
give_role_async_NoCatalogCheck(user_id, product_name, add_ok, dm_ok) ==
    LET products == get_all_products IN
    grant_in_guilds(user_id,
        IF product_name \in DOMAIN products
        THEN products[product_name].role_id ELSE 0,
        add_ok, dm_ok)

give_role_async(user_id, product_name, add_ok, dm_ok) ==
    LET products == get_all_products IN
    IF product_name \notin DOMAIN products
    THEN Fulfilment("ProductUnknown", <<>>, member_roles, FALSE, FALSE)
    ELSE grant_in_guilds(user_id, products[product_name].role_id, add_ok, dm_ok)

(***************************************************************************)
(* POST /webhook.  A request is its Stripe-Signature header and its body.  *)
(* A body is "not_json" (request.get_json() gives None, json parsing       *)
(* raises ValueError), an "empty_object" {}, a non-empty "array", or an    *)
(* "object" with the fields either provider uses; an absent field is None. *)
(***************************************************************************)
FieldsOf(b) ==
    <<b.shape, b.secret, b.product_name, b.discord_user_id, b.type,
      b.client_reference_id, b.metadata_product_name>>

\* The provider's signature scheme: a MAC of the raw body under a key.  The
\* header is <<>> when absent.
HMAC(key, payload) == <<key>> \o FieldsOf(payload)

\* Mutant of construct_event: only the key of the signature is checked, not
\* the body it covers.
construct_event_KeyOnly(payload, sig_header, secret) ==
    IF sig_header = <<>> \/ Head(sig_header) # secret
    THEN "SignatureVerificationError"
    ELSE IF payload.shape = "not_json" THEN "ValueError"
    ELSE "event"

\* stripe.Webhook.construct_event: the signature is verified first, then the
\* payload is parsed.
construct_event(payload, sig_header, secret) ==
    IF sig_header # HMAC(secret, payload) THEN "SignatureVerificationError"
    ELSE IF payload.shape = "not_json" THEN "ValueError"
    ELSE "event"

Response(status, body, path, f) ==
    [status |-> status, body |-> body, path |-> path, fulfilment |-> f]

NotInvoked == Fulfilment("NotInvoked", <<>>, member_roles, FALSE, FALSE)

\* An exception that escapes give_role_async escapes webhook too: HTTP 500.
AfterFulfilment(path, f) ==
    IF f.outcome = "ValueError"
    THEN Response(500, "Internal Server Error", path, f)
    ELSE Response(200, "success", path, f)

StripeHandler(req, add_ok, dm_ok) ==
    LET event == construct_event(req.body, req.sig_header, STRIPE_SECRET)
        b == req.body
    IN
    IF event = "ValueError"
    THEN Response(400, "Invalid payload", "stripe", NotInvoked)
    ELSE IF event = "SignatureVerificationError"
    THEN Response(400, "Invalid signature", "stripe", NotInvoked)
    ELSE IF b.shape # "object" \/ b.type = None          \* event['type'] raises
    THEN Response(500, "Internal Server Error", "stripe", NotInvoked)
    ELSE IF b.type = "checkout.session.completed"
            /\ Truthy(b.client_reference_id) /\ Truthy(b.metadata_product_name)
    THEN AfterFulfilment("stripe",
            give_role_async(b.client_reference_id, b.metadata_product_name,
                            add_ok, dm_ok))
    ELSE Response(200, "success", "stripe", NotInvoked)

\* Mutant of SellAppHandler: the received secret is compared without first
\* requiring that a secret is configured.
SellAppHandler_NoConfigCheck(req, add_ok, dm_ok) ==
    LET data == req.body IN
    IF data.shape \in {"not_json", "empty_object"}
    THEN Response(400, "No data", "sellapp", NotInvoked)
    ELSE IF data.shape # "object"
    THEN Response(500, "Internal Server Error", "sellapp", NotInvoked)
    ELSE IF data.secret = SELLAPP_SECRET
            /\ Truthy(data.product_name) /\ Truthy(data.discord_user_id)
    THEN AfterFulfilment("sellapp",
            give_role_async(data.discord_user_id, data.product_name,
                            add_ok, dm_ok))
    ELSE Response(403, "Unauthorized", "sellapp", NotInvoked)

SellAppHandler(req, add_ok, dm_ok) ==
    LET data == req.body IN
    IF data.shape \in {"not_json", "empty_object"}        \* if not data
    THEN Response(400, "No data", "sellapp", NotInvoked)
    ELSE IF data.shape # "object"                         \* data.get raises
    THEN Response(500, "Internal Server Error", "sellapp", NotInvoked)
    ELSE IF Truthy(SELLAPP_SECRET) /\ data.secret = SELLAPP_SECRET
            /\ Truthy(data.product_name) /\ Truthy(data.discord_user_id)
    THEN AfterFulfilment("sellapp",
            give_role_async(data.discord_user_id, data.product_name,
                            add_ok, dm_ok))
    ELSE Response(403, "Unauthorized", "sellapp", NotInvoked)

webhook(req, add_ok, dm_ok) ==
    IF req.sig_header # <<>> /\ Truthy(STRIPE_SECRET)
    THEN StripeHandler(req, add_ok, dm_ok)
    ELSE SellAppHandler(req, add_ok, dm_ok)

(***************************************************************************)
(* The requests the environment may send.                                  *)
(***************************************************************************)
Body(shape, secret, product_name, discord_user_id, type, cref, meta) ==
    [shape |-> shape, secret |-> secret, product_name |-> product_name,
     discord_user_id |-> discord_user_id, type |-> type,
     client_reference_id |-> cref, metadata_product_name |-> meta]

Secrets == {None, "", "s3cret", "wrong"}
UserIds == {None, "1", "2", "9", "abc"}
NamesSent == {None} \cup ProductNames
EventTypes == {"checkout.session.completed", "invoice.paid"}

\* {secret, product_name, discord_user_id} bodies of the shared-secret provider.
SellAppBodies ==
    {Body("object", s, p, u, None, None, None) :
        s \in Secrets, p \in NamesSent, u \in UserIds}

\* Provider events; some also carry a correct shared-secret triple.
StripeBodies ==
    {Body("object", t[1], t[2], t[3], ty, c, m) :
        t \in {<<None, None, None>>, <<"s3cret", "VIP", "1">>},
        ty \in EventTypes, c \in UserIds, m \in NamesSent}

OtherBodies ==
    {Body(sh, None, None, None, None, None, None) :
        sh \in {"not_json", "empty_object", "array"}}

Bodies == SellAppBodies \cup StripeBodies \cup OtherBodies

\* The body a tampered request was signed as, before its reference field
\* was rewritten.
Untampered(b) == [b EXCEPT !.client_reference_id = "7"]

SigningKeys == {"whsec", "forged"}

\* The headers a request with body b may carry: none, a signature of b under
\* some key, or the signature the untampered body had.
HeadersFor(b) ==
    {<<>>} \cup {HMAC(k, b) : k \in SigningKeys}
           \cup {HMAC("whsec", Untampered(b))}

Requests ==
    UNION {{[sig_header |-> s, body |-> b] : s \in HeadersFor(b)} : b \in Bodies}

(***************************************************************************)
(* Actions of the webhook specification.                                   *)
(***************************************************************************)
NoRoles == [g \in GuildIds |-> [m \in Guilds[g].members |-> {}]]

ConfigInit ==
    /\ STRIPE_SECRET \in {None, "whsec"}
    /\ SELLAPP_SECRET \in {None, "", "s3cret"}

Init ==
    /\ ConfigInit
    /\ STRIPE_API_KEY = None
    /\ db = TRUE
    /\ pymongo_major = 4
    /\ products_col = EmptyDict
    /\ payments_col = EmptyDict
    /\ sent = <<>>
    /\ member_roles = NoRoles
    /\ inflight = <<>>
    /\ response = <<>>
    /\ tickets = <<>>
    /\ tasks = <<>>

config == <<STRIPE_SECRET, SELLAPP_SECRET, STRIPE_API_KEY, db, pymongo_major>>

\* What the webhook and the ticket buttons neither read nor write.
shop == <<payments_col, sent>>

\* A request reaches the endpoint.
Receive(req) ==
    /\ inflight = <<>>
    /\ inflight' = <<req>>
    /\ UNCHANGED <<config, shop, products_col, member_roles, response, tickets, tasks>>

\* webhook() runs on it, fulfilment included.
Handle(add_ok, dm_ok) ==
    /\ inflight # <<>>
    /\ response = <<>>
    /\ LET resp == webhook(inflight[1], add_ok, dm_ok) IN
        /\ response' = <<resp>>
        /\ member_roles' = resp.fulfilment.roles
    /\ UNCHANGED <<config, shop, products_col, inflight, tickets, tasks>>

\* The response is sent and the request is over.
Return ==
    /\ response # <<>>
    /\ inflight' = <<>>
    /\ response' = <<>>
    /\ UNCHANGED <<config, shop, products_col, member_roles, tickets, tasks>>

\* @commands.has_permissions(administrator=True) on a command run in guild g.
has_permissions(g, actor) == actor \in Guilds[g].admins

\* !addproduct name price @role, by `actor` in guild g.
add_product(g, actor, name, price, role) ==
    /\ actor \in Guilds[g].members
    /\ role \in Guilds[g].roles
    /\ products_col' =
         IF has_permissions(g, actor)
         THEN save_product(name, [price |-> price, role_id |-> role,
                                  role_name |-> role, links |-> EmptyDict])
         ELSE products_col
    /\ UNCHANGED <<config, shop, member_roles, inflight, response, tickets, tasks>>

\* !delproduct name
del_product(g, actor, name) ==
    /\ actor \in Guilds[g].members
    /\ products_col' =
         IF has_permissions(g, actor) THEN delete_product_db(name)
         ELSE products_col
    /\ UNCHANGED <<config, shop, member_roles, inflight, response, tickets, tasks>>

CatalogCommand ==
    \E g \in GuildIds, actor \in AllMembers, name \in ProductNames :
        \/ \E price \in Prices, role \in AllRoles :
              add_product(g, actor, name, price, role)
        \/ del_product(g, actor, name)

Next ==
    \/ \E req \in Requests : Receive(req)
    \/ \E add_ok \in BOOLEAN, dm_ok \in BOOLEAN : Handle(add_ok, dm_ok)
    \/ Return
    \/ CatalogCommand

Spec == Init /\ [][Next]_vars

(***************************************************************************)
(* The manual-review ticket workflow.  A ticket is the channel created by  *)
(* PaidButton.callback together with the product name and user id its      *)
(* TicketAdminView captured.  Every click of a button starts a handler     *)
(* task, and a task is interleaved with the others at its awaits: the      *)
(* platform effect of an awaited call happens in the step that completes   *)
(* it.  A task records what it did: read_catalog (get_all_products was     *)
(* called), granted (add_roles succeeded), announced (the approval was     *)
(* announced), delete_tried (channel.delete was attempted), reply (the     *)
(* interaction response) and error (the exception that ended it).          *)
(***************************************************************************)
MaxTickets == 1
MaxTasks == 2

Ticket(g, product_name, user_id) ==
    [guild |-> g, product_name |-> product_name, user_id |-> user_id,
     channel |-> TRUE]

Task(kind, t, actor, pc, role, member, read_catalog, reply) ==
    [kind |-> kind, ticket |-> t, actor |-> actor, pc |-> pc,
     role |-> role, member |-> member, read_catalog |-> read_catalog,
     granted |-> FALSE, announced |-> FALSE, delete_tried |-> FALSE,
     reply |-> reply, error |-> None]

\* Mutant of is_administrator: every member of the guild passes the check.
is_administrator_Everyone(g, actor) == actor \in Guilds[g].members

\* interaction.user.guild_permissions.administrator
is_administrator(g, actor) == actor \in Guilds[g].admins

\* Who can see the ticket channel and so press its buttons: the purchaser
\* (the channel's overwrites) and the administrators.
CanClick(t, actor) ==
    /\ t \in DOMAIN tickets
    /\ tickets[t].channel
    /\ actor \in {tickets[t].user_id} \cup Guilds[tickets[t].guild].admins

\* PaidButton.callback: the user self-attests payment for a listed product.
\* The purchasers considered are the members without administrator rights.
PaidButton_callback(g, user, product_name) ==
    /\ Len(tickets) < MaxTickets
    /\ user \in Guilds[g].members \ Guilds[g].admins
    /\ product_name \in DOMAIN get_all_products
    /\ tickets' = Append(tickets, Ticket(g, product_name, user))
    /\ UNCHANGED <<config, shop, products_col, member_roles, inflight, response, tasks>>

\* An approve that closes the ticket of a product that has left the catalog.
approve_start_CloseStale(t, actor) ==
    LET g == tickets[t].guild
        name == tickets[t].product_name
    IN
    IF ~is_administrator(g, actor)
    THEN Task("approve", t, actor, "done", 0, 0, FALSE, "Only Admins can approve.")
    ELSE
    LET products == get_all_products IN
    IF name \notin DOMAIN products
    THEN Task("approve", t, actor, "sleep", 0, 0, TRUE, "Product no longer exists.")
    ELSE
    LET role == get_role(g, products[name].role_id)
        member == get_member(g, tickets[t].user_id)
    IN
    IF role # 0 /\ member # 0
    THEN Task("approve", t, actor, "add_roles", role, member, TRUE, None)
    ELSE Task("approve", t, actor, "done", role, member, TRUE,
              "Error: Role or Member not found.")

\* TicketAdminView.approve up to its first await.
approve_start(t, actor) ==
    LET g == tickets[t].guild
        name == tickets[t].product_name
    IN
    IF ~is_administrator(g, actor)
    THEN Task("approve", t, actor, "done", 0, 0, FALSE, "Only Admins can approve.")
    ELSE
    LET products == get_all_products IN
    IF name \notin DOMAIN products
    THEN Task("approve", t, actor, "done", 0, 0, TRUE, "Product no longer exists.")
    ELSE
    LET role == get_role(g, products[name].role_id)
        member == get_member(g, tickets[t].user_id)
    IN
    IF role # 0 /\ member # 0
    THEN Task("approve", t, actor, "add_roles", role, member, TRUE, None)
    ELSE Task("approve", t, actor, "done", role, member, TRUE,
              "Error: Role or Member not found.")

approve_click(t, actor) ==
    /\ Len(tasks) < MaxTasks
    /\ CanClick(t, actor)
    /\ tasks' = Append(tasks, approve_start(t, actor))
    /\ UNCHANGED <<config, shop, products_col, member_roles, inflight, response, tickets>>

\* An approve that gives the role to the administrator who pressed the button.
approve_add_roles_ToActor(i, ok) ==
    /\ tasks[i].kind = "approve"
    /\ tasks[i].pc = "add_roles"
    /\ IF ok
       THEN /\ member_roles' = add_roles(member_roles, tickets[tasks[i].ticket].guild,
                                         tasks[i].actor, tasks[i].role)
            /\ tasks' = [tasks EXCEPT ![i].granted = TRUE, ![i].pc = "announce"]
       ELSE /\ member_roles' = member_roles
            /\ tasks' = [tasks EXCEPT ![i].error = "HTTPException", ![i].pc = "failed"]
    /\ UNCHANGED <<config, shop, products_col, inflight, response, tickets>>

\* await member.add_roles(role) completes, or raises.
approve_add_roles(i, ok) ==
    /\ tasks[i].kind = "approve"
    /\ tasks[i].pc = "add_roles"
    /\ IF ok
       THEN /\ member_roles' = add_roles(member_roles, tickets[tasks[i].ticket].guild,
                                         tasks[i].member, tasks[i].role)
            /\ tasks' = [tasks EXCEPT ![i].granted = TRUE, ![i].pc = "announce"]
       ELSE /\ member_roles' = member_roles
            /\ tasks' = [tasks EXCEPT ![i].error = "HTTPException", ![i].pc = "failed"]
    /\ UNCHANGED <<config, shop, products_col, inflight, response, tickets>>

\* An approve that announces and then ends without closing the ticket.
approve_announce_NoClose(i) ==
    /\ tasks[i].kind = "approve"
    /\ tasks[i].pc = "announce"
    /\ tasks' = [tasks EXCEPT ![i].announced = TRUE, ![i].reply = "Approved!",
                              ![i].pc = "done"]
    /\ UNCHANGED <<config, shop, products_col, member_roles, inflight, response, tickets>>

\* await interaction.response.send_message("Approved! ...") and then await
\* interaction.channel.send("Ticket will close in 5 seconds..."), which
\* raises discord.NotFound when the channel is gone.  The task then sleeps.
approve_announce(i) ==
    /\ tasks[i].kind = "approve"
    /\ tasks[i].pc = "announce"
    /\ tasks' =
         IF tickets[tasks[i].ticket].channel
         THEN [tasks EXCEPT ![i].announced = TRUE, ![i].reply = "Approved!",
                            ![i].pc = "sleep"]
         ELSE [tasks EXCEPT ![i].announced = TRUE, ![i].reply = "Approved!",
                            ![i].error = "NotFound", ![i].pc = "failed"]
    /\ UNCHANGED <<config, shop, products_col, member_roles, inflight, response, tickets>>

\* await interaction.channel.delete(): the channel is removed; deleting a
\* channel that no longer exists raises discord.NotFound.
channel_delete(i, at) ==
    /\ tasks[i].pc = at
    /\ IF tickets[tasks[i].ticket].channel
       THEN /\ tickets' = [tickets EXCEPT ![tasks[i].ticket].channel = FALSE]
            /\ tasks' = [tasks EXCEPT ![i].delete_tried = TRUE, ![i].pc = "done"]
       ELSE /\ tickets' = tickets
            /\ tasks' = [tasks EXCEPT ![i].delete_tried = TRUE,
                                      ![i].error = "NotFound", ![i].pc = "failed"]
    /\ UNCHANGED <<config, shop, products_col, member_roles, inflight, response>>

\* await asyncio.sleep(5) is over: await interaction.channel.delete()
approve_delete(i) == tasks[i].kind = "approve" /\ channel_delete(i, "sleep")

\* TicketAdminView.deny up to its first await.
deny_start(t, actor) ==
    IF ~is_administrator(tickets[t].guild, actor)
    THEN Task("deny", t, actor, "done", 0, 0, FALSE, None)
    ELSE Task("deny", t, actor, "delete", 0, 0, FALSE, None)

deny_click(t, actor) ==
    /\ Len(tasks) < MaxTasks
    /\ CanClick(t, actor)
    /\ tasks' = Append(tasks, deny_start(t, actor))
    /\ UNCHANGED <<config, shop, products_col, member_roles, inflight, response, tickets>>

\* await interaction.channel.delete() of deny
deny_delete(i) == tasks[i].kind = "deny" /\ channel_delete(i, "delete")

\* The products tickets are opened for.
TicketProducts == {"VIP"}

InitTicket ==
    /\ STRIPE_SECRET = None
    /\ SELLAPP_SECRET = None
    /\ STRIPE_API_KEY = None
    /\ db = TRUE
    /\ pymongo_major = 4
    /\ products_col = EmptyDict
    /\ payments_col = EmptyDict
    /\ sent = <<>>
    /\ member_roles = NoRoles
    /\ inflight = <<>>
    /\ response = <<>>
    /\ tickets = <<>>
    /\ tasks = <<>>

\* The catalog commands an administrator runs while tickets are open.
TicketCatalogCommand ==
    \E g \in GuildIds : \E actor \in Guilds[g].admins, name \in TicketProducts :
        \/ \E price \in Prices, role \in AllRoles :
              add_product(g, actor, name, price, role)
        \/ del_product(g, actor, name)

NextTicket ==
    \/ TicketCatalogCommand
    \/ \E g \in GuildIds, user \in AllMembers, name \in TicketProducts :
          PaidButton_callback(g, user, name)
    \/ \E t \in DOMAIN tickets, actor \in AllMembers : approve_click(t, actor)
    \/ \E t \in DOMAIN tickets, actor \in AllMembers : deny_click(t, actor)
    \/ \E i \in DOMAIN tasks, ok \in BOOLEAN : approve_add_roles(i, ok)
    \/ \E i \in DOMAIN tasks : approve_announce(i)
    \/ \E i \in DOMAIN tasks : approve_delete(i)
    \/ \E i \in DOMAIN tasks : deny_delete(i)

SpecTicket == InitTicket /\ [][NextTicket]_vars

\* The steps of the handler task i after its first await.  The event loop
\* resumes a suspended handler once the call or the sleep it awaits is over.
TaskStep(i) ==
    /\ i \in DOMAIN tasks
    /\ \/ \E ok \in BOOLEAN : approve_add_roles(i, ok)
       \/ approve_announce(i)
       \/ approve_delete(i)
       \/ deny_delete(i)

SpecTicketFair ==
    SpecTicket /\ \A i \in 1..MaxTasks : WF_vars(TaskStep(i))

(***************************************************************************)
(* The admin commands on the catalog and the payment links, with the       *)
(* replies the bot posts, and the payment view of a product selection.     *)
(* A command runs to its end without an await between its reads and its    *)
(* writes of the collections, so each command is one step.                 *)
(***************************************************************************)
Methods == {"PayPal", "Stripe"}
Links == {"u1", "u2"}
CatalogPrices == {"10.00", "25.00"}

\* The number of latest messages kept in `sent`.
MaxSent == 2

\* {'$set': {'<field>.<k>': v}} on the sub-document d; a copy of d with d[k] = v.
SetKey(d, k, v) == [x \in DOMAIN d \cup {k} |-> IF x = k THEN v ELSE d[x]]

get_all_payments == IF ~db THEN EmptyDict ELSE payments_col

save_payment(method, link) ==
    IF ~db THEN payments_col ELSE SetKey(payments_col, method, link)

\* `if db:`.  None is false.  A pymongo Database has a truth value up to
\* pymongo 3; from pymongo 4 on, Database.__bool__ raises NotImplementedError.
bool_db ==
    IF ~db THEN "False"
    ELSE IF pymongo_major >= 4 THEN "NotImplementedError" ELSE "True"

\* products_col.update_one({'_id': product_name}, {'$set': {'links.<method>': link}}),
\* without upsert: a name that matches no document changes nothing.
update_one_link(product_name, method, link) ==
    IF product_name \in DOMAIN products_col
    THEN [products_col EXCEPT ![product_name].links = SetKey(@, method, link)]
    ELSE products_col

\* ctx.send / interaction.response.send_message; for an exception that
\* leaves the handler, the error the library reports and logs.
Post(msg) ==
    IF Len(sent) < MaxSent THEN Append(sent, msg) ELSE Append(Tail(sent), msg)

\* !addproduct name price @role.  A member without administrator permission
\* is stopped by the has_permissions check and the command body does not run.
addproduct(g, actor, name, price, role) ==
    /\ actor \in Guilds[g].members
    /\ role \in Guilds[g].roles
    /\ IF has_permissions(g, actor)
       THEN /\ products_col' =
                 save_product(name, [price |-> price, role_id |-> role,
                                     role_name |-> role, links |-> EmptyDict])
            /\ sent' = Post([text |-> "Product added", name |-> name,
                             price |-> price, role |-> role])
       ELSE UNCHANGED <<products_col, sent>>
    /\ UNCHANGED <<config, payments_col, member_roles, inflight, response, tickets, tasks>>

\* !delproduct name
delproduct(g, actor, name) ==
    /\ actor \in Guilds[g].members
    /\ IF has_permissions(g, actor)
       THEN /\ products_col' = delete_product_db(name)
            /\ sent' = Post([text |-> "Product deleted", name |-> name])
       ELSE UNCHANGED <<products_col, sent>>
    /\ UNCHANGED <<config, payments_col, member_roles, inflight, response, tickets, tasks>>

\* !setpayment method link
setpayment(g, actor, method, link) ==
    /\ actor \in Guilds[g].members
    /\ IF has_permissions(g, actor)
       THEN /\ payments_col' = save_payment(method, link)
            /\ sent' = Post([text |-> "Global Payment method set",
                             method |-> method, link |-> link])
       ELSE UNCHANGED <<payments_col, sent>>
    /\ UNCHANGED <<config, products_col, member_roles, inflight, response, tickets, tasks>>

\* !linkproduct product_name method link.  When `if db:` raises, the command
\* ends there: nothing is written and no reply is posted.
linkproduct(g, actor, product_name, method, link) ==
    /\ actor \in Guilds[g].members
    /\ IF ~has_permissions(g, actor)
       THEN UNCHANGED <<products_col, sent>>
       ELSE LET products == get_all_products IN
            IF product_name \notin DOMAIN products
            THEN /\ sent' = Post([text |-> "Product not found."])
                 /\ UNCHANGED products_col
            ELSE IF bool_db = "NotImplementedError"
            THEN /\ sent' = Post([text |-> "NotImplementedError"])
                 /\ UNCHANGED products_col
            ELSE /\ products_col' =
                      IF bool_db = "True"
                      THEN update_one_link(product_name, method, link)
                      ELSE products_col
                 /\ sent' = Post([text |-> "Linked", method |-> method,
                                  name |-> product_name, link |-> link])
    /\ UNCHANGED <<config, payments_col, member_roles, inflight, response, tickets, tasks>>

\* A dict.update that keeps the entries the dict already has.
dict_update_KeepOld(d, e) ==
    [k \in DOMAIN d \cup DOMAIN e |-> IF k \in DOMAIN d THEN d[k] ELSE e[k]]

\* d.copy() followed by .update(e)
dict_update(d, e) ==
    [k \in DOMAIN d \cup DOMAIN e |-> IF k \in DOMAIN e THEN e[k] ELSE d[k]]

\* str.lower on the method names
lower == ("PayPal" :> "paypal") @@ ("Stripe" :> "stripe")

\* PaymentView(product_name, price, payments): the Stripe checkout button
\* when STRIPE_API_KEY is set, one link button per payment method (the manual
\* stripe link is skipped when the key is set), and the "I Paid" button.
PaymentView(product_name, price, payments) ==
    LET shown == {m \in DOMAIN payments :
                    ~(lower[m] = "stripe" /\ Truthy(STRIPE_API_KEY))}
    IN [text |-> "You selected",
        name |-> product_name,
        price |-> price,
        payments |-> payments,
        checkout |-> Truthy(STRIPE_API_KEY),
        links |-> [m \in shown |-> payments[m]]]

\* ProductSelect.callback for a name of a menu posted earlier.  A name that
\* has left the catalog raises KeyError and no message is sent.
ProductSelect_callback(product_name) ==
    /\ LET products == get_all_products IN
       IF product_name \notin DOMAIN products
       THEN sent' = Post([text |-> "KeyError"])
       ELSE
       LET product == products[product_name]
           global_payments == get_all_payments
           specific_links == product.links
           final_payments == dict_update(global_payments, specific_links)
           has_stripe_api == Truthy(STRIPE_API_KEY)
           has_manual_links == final_payments # EmptyDict
       IN
       IF ~has_stripe_api /\ ~has_manual_links
       THEN sent' = Post([text |-> "No payment methods configured!"])
       ELSE sent' = Post(PaymentView(product_name, product.price, final_payments))
    /\ UNCHANGED <<config, products_col, payments_col, member_roles, inflight,
                   response, tickets, tasks>>

\* The installed driver is pymongo 3 or pymongo 4.
InitCatalog ==
    /\ STRIPE_SECRET = None
    /\ SELLAPP_SECRET = None
    /\ STRIPE_API_KEY = None
    /\ db = TRUE
    /\ pymongo_major \in {3, 4}
    /\ products_col = EmptyDict
    /\ payments_col = EmptyDict
    /\ sent = <<>>
    /\ member_roles = NoRoles
    /\ inflight = <<>>
    /\ response = <<>>
    /\ tickets = <<>>
    /\ tasks = <<>>

NextCatalog ==
    \E g \in GuildIds, actor \in AllMembers, name \in ProductNames :
        \/ \E price \in CatalogPrices, role \in AllRoles :
              addproduct(g, actor, name, price, role)
        \/ delproduct(g, actor, name)
        \/ \E method \in Methods, link \in Links :
              linkproduct(g, actor, name, method, link)

SpecCatalog == InitCatalog /\ [][NextCatalog]_vars

\* The bot with a Stripe API key or without one, and one product on sale.
InitPayments ==
    /\ STRIPE_SECRET = None
    /\ SELLAPP_SECRET = None
    /\ STRIPE_API_KEY \in {None, "sk_test"}
    /\ db = TRUE
    /\ pymongo_major \in {3, 4}
    /\ products_col = EmptyDict
    /\ payments_col = EmptyDict
    /\ sent = <<>>
    /\ member_roles = NoRoles
    /\ inflight = <<>>
    /\ response = <<>>
    /\ tickets = <<>>
    /\ tasks = <<>>

NextPayments ==
    \/ \E g \in GuildIds, actor \in AllMembers, name \in TicketProducts :
          \/ \E price \in Prices, role \in AllRoles :
                addproduct(g, actor, name, price, role)
          \/ delproduct(g, actor, name)
          \/ \E method \in Methods, link \in Links :
                linkproduct(g, actor, name, method, link)
    \/ \E g \in GuildIds, actor \in AllMembers, method \in Methods, link \in Links :
          setpayment(g, actor, method, link)
    \/ \E name \in TicketProducts : ProductSelect_callback(name)

SpecPayments == InitPayments /\ [][NextPayments]_vars

\* The bot started without MONGO_URI: db is None.  Both payment secrets
\* are configured, so that events can pass verification.
InitNoDb ==
    /\ STRIPE_SECRET = "whsec"
    /\ SELLAPP_SECRET = "s3cret"
    /\ STRIPE_API_KEY = None
    /\ db = FALSE
    /\ pymongo_major \in {3, 4}
    /\ products_col = EmptyDict
    /\ payments_col = EmptyDict
    /\ sent = <<>>
    /\ member_roles = NoRoles
    /\ inflight = <<>>
    /\ response = <<>>
    /\ tickets = <<>>
    /\ tasks = <<>>

NextNoDb ==
    \/ \E req \in Requests : Receive(req)
    \/ \E add_ok \in BOOLEAN, dm_ok \in BOOLEAN : Handle(add_ok, dm_ok)
    \/ Return
    \/ \E g \in GuildIds, actor \in AllMembers, name \in TicketProducts :
          \/ \E price \in Prices, role \in AllRoles :
                addproduct(g, actor, name, price, role)
          \/ delproduct(g, actor, name)
          \/ \E method \in Methods, link \in Links :
                linkproduct(g, actor, name, method, link)
    \/ \E g \in GuildIds, actor \in AllMembers, method \in Methods, link \in Links :
          setpayment(g, actor, method, link)

SpecNoDb == InitNoDb /\ [][NextNoDb]_vars

(***************************************************************************)
(* Properties of the webhook and of fulfilment, checked under Spec.        *)
(***************************************************************************)
\* A request has been answered and the answer not yet sent.
Served == inflight # <<>> /\ response # <<>>

\* The step in which webhook() runs.
HandleStep == inflight # <<>> /\ response = <<>> /\ response' # <<>>

\* The request takes the SellApp branch of webhook().
OnSharedSecretPath(req) == req.sig_header = <<>> \/ ~Truthy(STRIPE_SECRET)

\* Its `secret` is missing, mismatched, or no shared secret is configured.
SecretRejected(req) ==
    \/ req.body.secret = None
    \/ req.body.secret # SELLAPP_SECRET
    \/ ~Truthy(SELLAPP_SECRET)

SecretAccepted(req) ==
    /\ req.body.shape = "object"
    /\ Truthy(SELLAPP_SECRET)
    /\ req.body.secret = SELLAPP_SECRET

\* The signature header is present, a signing secret is configured, and the
\* header is (is not) the MAC of the body received under that secret.
SignatureChecked(req) == req.sig_header # <<>> /\ Truthy(STRIPE_SECRET)
SignatureValid(req) ==
    SignatureChecked(req) /\ req.sig_header = HMAC(STRIPE_SECRET, req.body)
SignatureInvalid(req) ==
    SignatureChecked(req) /\ req.sig_header # HMAC(STRIPE_SECRET, req.body)

\* C1 (as amended): on the shared-secret path a request whose `secret` is
\* missing, mismatched, or arrives with no shared secret configured never
\* starts fulfilment and changes no member's roles; it is answered 403
\* Unauthorized when its body is a non-empty JSON object and 400 "No data"
\* when its body is empty or not JSON.
C1_SharedSecretGuard ==
    [][HandleStep =>
        LET req == inflight[1]
            resp == response'[1]
        IN
        (OnSharedSecretPath(req) /\ SecretRejected(req)) =>
            /\ resp.fulfilment.outcome = "NotInvoked"
            /\ resp.fulfilment.calls = <<>>
            /\ member_roles' = member_roles
            /\ req.body.shape = "object" =>
                  resp.status = 403 /\ resp.body = "Unauthorized"
            /\ req.body.shape \in {"not_json", "empty_object"} =>
                  resp.status = 400 /\ resp.body = "No data"]_vars

\* C1 witness: a wrong secret for a product in the catalog and a member of a
\* guild is answered 403.
C1_Witness ==
    /\ Served
    /\ SELLAPP_SECRET = "s3cret"
    /\ inflight[1].sig_header = <<>>
    /\ inflight[1].body = Body("object", "wrong", "VIP", "1", None, None, None)
    /\ "VIP" \in DOMAIN products_col
    /\ response[1].status = 403

\* C1 as stated: every such request, here one whose body is a JSON object,
\* is answered 403.
C1_Original ==
    (/\ Served
     /\ inflight[1].sig_header = <<>>
     /\ inflight[1].body.shape \in {"object", "empty_object"}
     /\ SecretRejected(inflight[1])) =>
        /\ response[1].status = 403
        /\ response[1].fulfilment.outcome = "NotInvoked"

\* C2: a request with a signature header, under a configured signing secret,
\* whose signature does not verify is answered 400 "Invalid signature"; it
\* does not reach the shared-secret branch, starts no fulfilment and changes
\* no member's roles, whatever else its body carries.
C2_InvalidSignatureRejected ==
    [][HandleStep =>
        LET req == inflight[1]
            resp == response'[1]
        IN
        SignatureInvalid(req) =>
            /\ resp.status = 400
            /\ resp.body = "Invalid signature"
            /\ resp.path = "stripe"
            /\ resp.fulfilment.outcome = "NotInvoked"
            /\ member_roles' = member_roles]_vars

\* C2 witness: a body rewritten after signing, that also carries the correct
\* shared secret, a catalog product and a guild member, is answered 400.
C2_Witness ==
    /\ Served
    /\ STRIPE_SECRET = "whsec"
    /\ SELLAPP_SECRET = "s3cret"
    /\ inflight[1].body = Body("object", "s3cret", "VIP", "1",
                               "checkout.session.completed", "1", "VIP")
    /\ inflight[1].sig_header = HMAC("whsec", Untampered(inflight[1].body))
    /\ "VIP" \in DOMAIN products_col
    /\ response[1].status = 400
    /\ response[1].body = "Invalid signature"

\* C3 as stated: on the shared-secret path a request with the correct secret
\* but no product_name, or no user id, is answered 400 and not 403, and
\* starts no fulfilment.
C3_Claim ==
    LET req == inflight[1] IN
    (/\ Served
     /\ OnSharedSecretPath(req)
     /\ SecretAccepted(req)
     /\ ~Truthy(req.body.product_name) \/ ~Truthy(req.body.discord_user_id)) =>
        /\ response[1].status = 400
        /\ response[1].fulfilment.outcome = "NotInvoked"

\* The normalized event a request stands for: the user and the product, read
\* from the fields of the branch the request takes.
EventUser(req) ==
    IF SignatureChecked(req) THEN req.body.client_reference_id
    ELSE req.body.discord_user_id

EventProduct(req) ==
    IF SignatureChecked(req) THEN req.body.metadata_product_name
    ELSE req.body.product_name

\* The request passes verification: a valid signature on a completed
\* checkout, or the configured shared secret.
Verified(req) ==
    \/ /\ SignatureValid(req)
       /\ req.body.shape = "object"
       /\ req.body.type = "checkout.session.completed"
    \/ OnSharedSecretPath(req) /\ SecretAccepted(req)

CarriesBoth(req) == Truthy(EventUser(req)) /\ Truthy(EventProduct(req))

InCatalog(p) == db /\ p \in DOMAIN products_col

\* Member user_id is found, the product's role exists in the guild the member
\* is found in, and the member holds that role.
AlreadyHolds(user_id, p) ==
    /\ InCatalog(p)
    /\ IsDecimal(user_id)
    /\ LET uid == IntOf[user_id]
           g == FirstGuildWith(uid, 1)
           role_id == products_col[p].role_id
       IN /\ g # 0
          /\ role_id \in Guilds[g].roles
          /\ role_id \in member_roles[g][uid]

Range(seq) == {seq[i] : i \in DOMAIN seq}

\* C7 (as amended): fulfilling a verified event for a catalog product whose
\* role the member already holds leaves every member's role set exactly as
\* it was (the grant is set membership); the outcome is Granted unless the
\* platform refuses the add_roles call; and each Granted call sends the
\* payment notification again.
C7_RegrantKeepsRoles ==
    [][HandleStep =>
        LET req == inflight[1]
            f == response'[1].fulfilment
        IN
        (/\ Verified(req)
         /\ CarriesBoth(req)
         /\ AlreadyHolds(EventUser(req), EventProduct(req))) =>
            /\ f.outcome \in {"Granted", "GrantFailed"}
            /\ "add_roles" \in Range(f.calls)
            /\ member_roles' = member_roles
            /\ f.outcome = "Granted" => "send" \in Range(f.calls)]_vars

\* C7 witness: a second Granted fulfilment for a member who held the role.
C7_Witness ==
    /\ Served
    /\ AlreadyHolds(EventUser(inflight[1]), EventProduct(inflight[1]))
    /\ response[1].fulfilment.had
    /\ response[1].fulfilment.outcome = "Granted"
    /\ response[1].status = 200

\* C7 as stated: the second Granted call repeats no side effect, so it sends
\* no second notification.
C7_Original ==
    (Served /\ response[1].fulfilment.had
            /\ response[1].fulfilment.outcome = "Granted") =>
        "send" \notin Range(response[1].fulfilment.calls)

\* C8: fulfilling a verified event whose product is not in the catalog ends
\* as ProductUnknown with no platform call at all (no member or role lookup,
\* no grant, no notification) and every member's roles unchanged.
C8_UnknownProductNoCalls ==
    [][HandleStep =>
        LET req == inflight[1]
            resp == response'[1]
        IN
        (Verified(req) /\ CarriesBoth(req) /\ ~InCatalog(EventProduct(req))) =>
            /\ resp.fulfilment.outcome = "ProductUnknown"
            /\ resp.fulfilment.calls = <<>>
            /\ ~resp.fulfilment.notified
            /\ member_roles' = member_roles]_vars

\* C8 witness: member 1 was granted role 10 for a product, the catalog has
\* since been emptied, and an event for VIP ends as ProductUnknown.
C8_Witness ==
    /\ Served
    /\ 10 \in member_roles[1][1]
    /\ DOMAIN products_col = {}
    /\ EventProduct(inflight[1]) = "VIP"
    /\ EventUser(inflight[1]) = "1"
    /\ response[1].fulfilment.outcome = "ProductUnknown"

\* C9 as stated: every request that passes verification and carries a user
\* id and a product name is answered 200 "success".
C9_Claim ==
    (Served /\ Verified(inflight[1]) /\ CarriesBoth(inflight[1])) =>
        response[1].status = 200 /\ response[1].body = "success"

\* C10 as stated, for well-formed provider events: every signature-valid
\* event is answered 200, and fulfilment runs iff the event is a completed
\* checkout carrying both the user reference and the product name.
C10_Claim ==
    LET b == inflight[1].body IN
    (/\ Served
     /\ SignatureValid(inflight[1])
     /\ b.shape = "object"
     /\ b.type # None) =>
        /\ response[1].status = 200
        /\ response[1].fulfilment.outcome # "NotInvoked" <=>
              /\ b.type = "checkout.session.completed"
              /\ Truthy(b.client_reference_id)
              /\ Truthy(b.metadata_product_name)

(***************************************************************************)
(* Properties of the ticket workflow, checked under SpecTicket.            *)
(***************************************************************************)
\* The status of ticket t, read off what its handlers have done: Approved
\* once an approve handler has granted the role, Denied once a deny handler
\* has removed the channel, Open otherwise.
Approved(t) ==
    \E i \in DOMAIN tasks :
        tasks[i].ticket = t /\ tasks[i].kind = "approve" /\ tasks[i].granted

Denied(t) ==
    \E i \in DOMAIN tasks :
        /\ tasks[i].ticket = t /\ tasks[i].kind = "deny"
        /\ tasks[i].delete_tried /\ tasks[i].error = None

Open(t) == ~Approved(t) /\ ~Denied(t)

\* The task was started by a member without administrator capability.
ByNonAdmin(k) == k.actor \notin Guilds[tickets[k.ticket].guild].admins

\* A button was pressed in this step; the task it started is the last one.
ClickStep == Len(tasks') = Len(tasks) + 1
Clicked == tasks'[Len(tasks')]

\* C4: a handler started by a non-admin, Approve or Deny, ends at once: it
\* never reads the catalog, grants a role, announces or attempts to delete
\* the channel, and the click leaves the ticket, its status, the catalog and
\* every member's roles as they were.
C4_NonAdminInert ==
    /\ [](\A i \in DOMAIN tasks :
            ByNonAdmin(tasks[i]) =>
                /\ tasks[i].pc = "done"
                /\ ~tasks[i].read_catalog
                /\ ~tasks[i].granted
                /\ ~tasks[i].announced
                /\ ~tasks[i].delete_tried
                /\ tasks[i].error = None)
    /\ [][(ClickStep /\ ByNonAdmin(Clicked)) =>
            /\ UNCHANGED <<tickets, member_roles, products_col>>
            /\ \A t \in DOMAIN tickets :
                  /\ Approved(t)' = Approved(t)
                  /\ Denied(t)' = Denied(t)]_vars

\* C4 witness: the purchaser has pressed both Approve and Deny on the ticket
\* of a product that is in the catalog; the ticket is Open, its channel there.
C4_Witness ==
    /\ Len(tasks) = 2
    /\ \E i, j \in DOMAIN tasks :
          /\ tasks[i].kind = "approve" /\ ByNonAdmin(tasks[i])
          /\ tasks[i].reply = "Only Admins can approve."
          /\ tasks[j].kind = "deny" /\ ByNonAdmin(tasks[j])
          /\ tasks[i].ticket = 1 /\ tasks[j].ticket = 1
    /\ tickets[1].channel
    /\ tickets[1].product_name \in DOMAIN products_col
    /\ Open(1)

\* C5 as stated: a ticket is never both Approved and Denied, and a button
\* pressed on a ticket that is already Approved starts nothing: the handler
\* ends at once, without a role-grant call, an announcement or a channel
\* deletion.
C5_Claim ==
    /\ [](\A t \in DOMAIN tickets : ~(Approved(t) /\ Denied(t)))
    /\ [][\A t \in DOMAIN tickets :
            (/\ Approved(t)
             /\ ClickStep
             /\ Clicked.ticket = t
             /\ ~ByNonAdmin(Clicked)) => Clicked.pc = "done"]_vars

\* C6 as stated: on an Approved ticket no attempt to delete the channel
\* raises an error, also when another handler (a Deny during the delay, a
\* concurrent Approve) has already deleted it.
C6_Claim ==
    \A i \in DOMAIN tasks :
        (Approved(tasks[i].ticket) /\ tasks[i].delete_tried) =>
            tasks[i].error = None

\* The task of an administrator's Approve on a ticket whose product was not
\* in the catalog.
StaleApprove(k) == k.kind = "approve" /\ k.reply = "Product no longer exists."

\* C11: an administrator's Approve on a ticket whose product is not in the
\* catalog answers "Product no longer exists." and ends at once: no role is
\* granted, nothing is announced, no channel deletion is attempted, and the
\* click leaves the ticket, its channel, its status, the catalog and every
\* member's roles as they were.
C11_StaleApproveInert ==
    /\ [](\A i \in DOMAIN tasks :
            StaleApprove(tasks[i]) =>
                /\ tasks[i].pc = "done"
                /\ ~tasks[i].granted
                /\ ~tasks[i].announced
                /\ ~tasks[i].delete_tried
                /\ tasks[i].error = None)
    /\ [][(/\ ClickStep
           /\ Clicked.kind = "approve"
           /\ ~ByNonAdmin(Clicked)
           /\ tickets[Clicked.ticket].product_name \notin DOMAIN get_all_products) =>
            /\ StaleApprove(Clicked)
            /\ UNCHANGED <<tickets, member_roles, products_col>>
            /\ \A t \in DOMAIN tickets :
                  /\ Approved(t)' = Approved(t)
                  /\ Denied(t)' = Denied(t)]_vars

\* C11 witness: an Approve found the product gone, the product was added
\* again, and a later Approve on the same ticket granted the role and closed
\* the ticket.
C11_Witness ==
    \E i, j \in DOMAIN tasks :
        /\ i < j
        /\ StaleApprove(tasks[i])
        /\ tasks[j].ticket = tasks[i].ticket
        /\ tasks[j].kind = "approve"
        /\ tasks[j].granted
        /\ tasks[j].pc = "done"
        /\ Approved(tasks[j].ticket)

\* The role-grant call of an administrator's Approve was refused by the
\* platform.
GrantRefused(k) == k.kind = "approve" /\ k.error = "HTTPException"

\* C12 as stated, for the Approve path: when the platform refuses the
\* role-grant call the approving administrator is sent an error reply, and
\* neither the approval announcement nor a channel deletion follows.
C12_Claim ==
    \A i \in DOMAIN tasks :
        GrantRefused(tasks[i]) =>
            /\ tasks[i].reply # None
            /\ ~tasks[i].announced
            /\ ~tasks[i].delete_tried

LastSent == sent'[Len(sent')]

\* C14: after an administrator's !delproduct n, get_all_products() has no
\* entry n, whether or not it had one; every other product is there exactly
\* when it was before, with the same record; when n was absent the collection
\* is unchanged; and the command ends with its reply, not with an error.
C14_DeleteRemoves ==
    [][\A g \in GuildIds, actor \in AllMembers, n \in ProductNames :
        (has_permissions(g, actor) /\ delproduct(g, actor, n)) =>
            /\ n \notin DOMAIN get_all_products'
            /\ DOMAIN products_col' = DOMAIN products_col \ {n}
            /\ \A m \in DOMAIN products_col \ {n} :
                  products_col'[m] = products_col[m]
            /\ n \notin DOMAIN products_col => products_col' = products_col
            /\ LastSent = [text |-> "Product deleted", name |-> n]]_vars

\* C14 witness: !delproduct VIP was run twice in a row, the second time on
\* an absent name, while PRO is in the catalog with a payment link.
C14_Witness ==
    /\ Len(sent) = 2
    /\ sent[1] = [text |-> "Product deleted", name |-> "VIP"]
    /\ sent[2] = [text |-> "Product deleted", name |-> "VIP"]
    /\ "VIP" \notin DOMAIN get_all_products
    /\ "PRO" \in DOMAIN products_col
    /\ products_col["PRO"].links # EmptyDict

\* C16: an administrator's !addproduct n price role leaves under n exactly
\* the record written, price, role and an empty link map, whatever record and
\* links n had before, and leaves every other product as it was.
C16_AddReplaces ==
    [][\A g \in GuildIds, actor \in AllMembers, n \in ProductNames,
          price \in CatalogPrices, role \in AllRoles :
        (has_permissions(g, actor) /\ addproduct(g, actor, n, price, role)) =>
            /\ DOMAIN products_col' = DOMAIN products_col \cup {n}
            /\ products_col'[n] = [price |-> price, role_id |-> role,
                                   role_name |-> role, links |-> EmptyDict]
            /\ \A m \in DOMAIN products_col \ {n} :
                  products_col'[m] = products_col[m]]_vars

\* C16 witness: a payment link was attached to VIP and VIP was then added
\* again with another price; its record is the new one with no links, and
\* PRO is in the catalog with its links.
C16_Witness ==
    /\ Len(sent) = 2
    /\ sent[1].text = "Linked" /\ sent[1].name = "VIP"
    /\ sent[2] = [text |-> "Product added", name |-> "VIP",
                  price |-> "25.00", role |-> 20]
    /\ products_col["VIP"] = [price |-> "25.00", role_id |-> 20,
                              role_name |-> 20, links |-> EmptyDict]
    /\ "PRO" \in DOMAIN products_col
    /\ products_col["PRO"].links # EmptyDict

\* C17 as stated: an administrator's !linkproduct n method link on a
\* product of the catalog sets links[method] of n to link and leaves its
\* price, its role, its other links and the other products as they were; on
\* a name that is not in the catalog it answers "Product not found." and
\* leaves the catalog unchanged.
C17_Claim ==
    [][\A g \in GuildIds, actor \in AllMembers, n \in ProductNames,
          method \in Methods, link \in Links :
        (has_permissions(g, actor) /\ linkproduct(g, actor, n, method, link)) =>
            IF n \in DOMAIN get_all_products
            THEN /\ DOMAIN products_col' = DOMAIN products_col
                 /\ DOMAIN products_col'[n].links =
                        DOMAIN products_col[n].links \cup {method}
                 /\ products_col'[n].links[method] = link
                 /\ \A k \in DOMAIN products_col[n].links \ {method} :
                       products_col'[n].links[k] = products_col[n].links[k]
                 /\ products_col'[n].price = products_col[n].price
                 /\ products_col'[n].role_id = products_col[n].role_id
                 /\ \A m \in DOMAIN products_col \ {n} :
                       products_col'[m] = products_col[m]
            ELSE /\ LastSent.text = "Product not found."
                 /\ products_col' = products_col]_vars

(***************************************************************************)
(* Properties of the payment view, checked under SpecPayments.             *)
(***************************************************************************)
\* The payment methods the selection computed: those handed to the payment
\* view, or none when the bot answered that no method is configured.
Effective ==
    IF LastSent.text = "You selected" THEN LastSent.payments ELSE EmptyDict

\* C15: when a product of the catalog is selected, the payment methods
\* computed are the global methods overlaid by the product's links: the keys
\* are those of either map, a key of the product's links has the product's
\* URL, a key only in the global methods has the global URL, the result is
\* empty exactly when both maps are; and the selection leaves the stored
\* global methods and the catalog as they were.
C15_EffectiveMethods ==
    [][\A name \in TicketProducts :
        (name \in DOMAIN get_all_products /\ ProductSelect_callback(name)) =>
            LET global == get_all_payments
                links == products_col[name].links
            IN
            /\ LastSent.text \in {"You selected", "No payment methods configured!"}
            /\ DOMAIN Effective = DOMAIN global \cup DOMAIN links
            /\ \A k \in DOMAIN links : Effective[k] = links[k]
            /\ \A k \in DOMAIN global \ DOMAIN links : Effective[k] = global[k]
            /\ Effective = EmptyDict <=> (global = EmptyDict /\ links = EmptyDict)
            /\ UNCHANGED <<payments_col, products_col>>]_vars

\* C15 witness: the global methods are PayPal and Stripe, the product links
\* Stripe to another URL, and the view of the selection has the global PayPal
\* URL and the product's Stripe URL.
C15_Witness ==
    /\ sent # <<>>
    /\ payments_col = ("PayPal" :> "u1") @@ ("Stripe" :> "u1")
    /\ "VIP" \in DOMAIN products_col
    /\ products_col["VIP"].links = ("Stripe" :> "u2")
    /\ sent[Len(sent)].text = "You selected"
    /\ sent[Len(sent)].payments = ("PayPal" :> "u1") @@ ("Stripe" :> "u2")

(***************************************************************************)
(* Properties of the bot without persistence, checked under SpecNoDb.      *)
(***************************************************************************)
\* C18: without MONGO_URI no command writes anything and both reads are
\* empty, whatever commands were run; and no webhook request, verified or
\* not, makes a platform call or changes a member's roles.
C18_NoPersistence ==
    /\ [](/\ products_col = EmptyDict
          /\ payments_col = EmptyDict
          /\ get_all_products = EmptyDict
          /\ get_all_payments = EmptyDict
          /\ member_roles = NoRoles
          /\ response # <<>> =>
                /\ response[1].fulfilment.outcome \in {"NotInvoked", "ProductUnknown"}
                /\ response[1].fulfilment.calls = <<>>)
    /\ [][(HandleStep /\ Verified(inflight[1]) /\ CarriesBoth(inflight[1])) =>
            response'[1].fulfilment.outcome = "ProductUnknown"]_vars

\* C18 witness: an administrator ran !addproduct VIP, which answered that
\* the product was added, and !setpayment; a verified event for VIP and
\* member 1 was then answered 200 with the product unknown.
C18_Witness ==
    /\ Len(sent) = 2
    /\ sent[1].text = "Product added" /\ sent[1].name = "VIP"
    /\ sent[2].text = "Global Payment method set"
    /\ Served
    /\ Verified(inflight[1])
    /\ EventProduct(inflight[1]) = "VIP"
    /\ EventUser(inflight[1]) = "1"
    /\ response[1].status = 200
    /\ response[1].fulfilment.outcome = "ProductUnknown"
    /\ get_all_products = EmptyDict

(***************************************************************************)
(* Properties of fulfilment over several guilds, checked under Spec.       *)
(***************************************************************************)
\* The guilds, in the order of bot.guilds, that have member uid.
GuildsOf(uid) == {g \in GuildIds : uid \in Guilds[g].members}

\* C19: a verified event for a product of the catalog and a member of some
\* guild changes roles in the first guild that has the member and in no
\* other; when that guild has no role with the product's role id the outcome
\* is RoleNotFound and no role changes anywhere, also when a later guild has
\* both the member and the role.
C19_FirstGuildOnly ==
    [][(/\ HandleStep
        /\ Verified(inflight[1])
        /\ CarriesBoth(inflight[1])
        /\ InCatalog(EventProduct(inflight[1]))
        /\ IsDecimal(EventUser(inflight[1]))
        /\ GuildsOf(IntOf[EventUser(inflight[1])]) # {}) =>
            LET uid == IntOf[EventUser(inflight[1])]
                role_id == products_col[EventProduct(inflight[1])].role_id
                first == CHOOSE g \in GuildsOf(uid) : \A h \in GuildsOf(uid) : g <= h
                f == response'[1].fulfilment
            IN
            /\ \A g \in GuildIds \ {first} : member_roles'[g] = member_roles[g]
            /\ \A m \in Guilds[first].members \ {uid} :
                  member_roles'[first][m] = member_roles[first][m]
            /\ role_id \notin Guilds[first].roles =>
                  /\ f.outcome = "RoleNotFound"
                  /\ member_roles' = member_roles
                  /\ "add_roles" \notin Range(f.calls)]_vars

\* C19 witness: member 1 is in guild 1, which has no role 20, and in guild
\* 2, which has it; a verified event for a product bound to role 20 ended
\* with RoleNotFound and member 1 has role 20 in neither guild.
C19_Witness ==
    /\ Served
    /\ Verified(inflight[1])
    /\ EventUser(inflight[1]) = "1"
    /\ InCatalog(EventProduct(inflight[1]))
    /\ products_col[EventProduct(inflight[1])].role_id = 20
    /\ 1 \in Guilds[1].members /\ 20 \notin Guilds[1].roles
    /\ 1 \in Guilds[2].members /\ 20 \in Guilds[2].roles
    /\ response[1].fulfilment.outcome = "RoleNotFound"
    /\ 20 \notin member_roles[1][1]
    /\ 20 \notin member_roles[2][1]

====
